---------------------------- MODULE Spec2Model ----------------------------
(***************************************************************************)
(* Model of the organization engine of folder-organizer-appV1.py:          *)
(* class FolderOrganizer (organize, generate_dry_run_report,               *)
(* perform_organization, is_excluded, apply_filters, get_destination,      *)
(* get_file_date, move_file, create_backup_log) over a small file system.  *)
(*                                                                         *)
(* Strings are sequences of one-character strings, so that substring       *)
(* tests, os.path.splitext and str.lower are computed, not assumed.        *)
(* A path is a sequence of segments (each a string); the path string       *)
(* "t/D" is <<t, D>>.  A trailing empty segment is a trailing separator.   *)
(***************************************************************************)
EXTENDS Integers, Sequences, FiniteSets, TLC

\* ------------------------------------------------------------------ bounds
\* longest filter list drawn for a run
MaxFilters == 2
\* longest folder-rule list drawn for a run
MaxRules == 2

\* ----------------------------------------------------------------- strings
Last(s) == s[Len(s)]
Front(s) == SubSeq(s, 1, Len(s) - 1)

RECURSIVE Concat(_)
\* "".join(parts)
Concat(parts) ==
    IF parts = <<>> THEN <<>> ELSE Head(parts) \o Concat(Tail(parts))

\* Python's  `sub in s`  on strings
Contains(s, sub) ==
    \E i \in 0..(Len(s) - Len(sub)) : SubSeq(s, i + 1, i + Len(sub)) = sub

\* str.lower() on one character (the letters the model's names use)
LowerChar(c) ==
    CASE c = "A" -> "a" [] c = "B" -> "b" [] c = "D" -> "d" [] c = "E" -> "e"
      [] c = "P" -> "p" [] c = "T" -> "t" [] c = "X" -> "x" [] c = "Z" -> "z"
      [] OTHER -> c

\* str.lower()
Lower(s) == [i \in 1..Len(s) |-> LowerChar(s[i])]

\* str(n) for a natural number
Digit(d) == <<"0", "1", "2", "3", "4", "5", "6", "7", "8", "9">>[d + 1]

RECURSIVE Str(_)
Str(n) == IF n < 10 THEN <<Digit(n)>> ELSE Str(n \div 10) \o <<Digit(n % 10)>>

\* zero-padded two-digit number, strftime's %m %d %W
Str2(n) == IF n < 10 THEN <<"0">> \o Str(n) ELSE Str(n)

\* index of the last "." of a name, 0 when there is none
LastDot(name) ==
    IF \E i \in 1..Len(name) : name[i] = "."
    THEN CHOOSE i \in 1..Len(name) :
            /\ name[i] = "."
            /\ \A j \in (i + 1)..Len(name) : name[j] # "."
    ELSE 0

\* os.path.splitext(filename): <<root, ext>>.  The extension starts at the
\* last dot, unless only dots precede that dot (".bashrc" has no extension).
splitext(name) ==
    LET d == LastDot(name) IN
    IF d > 0 /\ \E j \in 1..(d - 1) : name[j] # "."
    THEN <<SubSeq(name, 1, d - 1), SubSeq(name, d, Len(name))>>
    ELSE <<name, <<>>>>

\* ------------------------------------------------------------------- paths
\* os.path.join(path, segment)
Join(p, seg) ==
    IF Len(p) > 0 /\ Last(p) = <<>> THEN Front(p) \o <<seg>> ELSE p \o <<seg>>

\* the directory a path string denotes (a trailing separator is dropped)
Loc(p) == IF Len(p) > 0 /\ Last(p) = <<>> THEN Front(p) ELSE p

RECURSIVE PathStr(_)
\* the path as one string, segments separated by "/"
PathStr(p) ==
    IF p = <<>> THEN <<>> ELSE <<"/">> \o Head(p) \o PathStr(Tail(p))

\* os.path.basename / os.path.dirname of a file path
basename(fp) == Last(fp)
dirname(fp) == Front(fp)

\* -------------------------------------------------------------------- time
\* Timestamps are hours since 2024-01-01 00:00 (a Monday).
HoursPerDay == 24
DaysIn2024 == 366

\* datetime.now() of the run: 2024-04-10 12:00
Now == 2412

MonthLen == <<31, 29, 31, 30, 31, 30, 31, 31, 30, 31, 30, 31>>
MonthAbbr ==
    << <<"J","a","n">>, <<"F","e","b">>, <<"M","a","r">>, <<"A","p","r">>,
       <<"M","a","y">>, <<"J","u","n">>, <<"J","u","l">>, <<"A","u","g">>,
       <<"S","e","p">>, <<"O","c","t">>, <<"N","o","v">>, <<"D","e","c">> >>

RECURSIVE MonthOf(_, _)
\* <<month, day of month>> of the 0-based day of year yd, counting from month m
MonthOf(yd, m) ==
    IF m = 12 \/ yd < MonthLen[m] THEN <<m, yd + 1>>
    ELSE MonthOf(yd - MonthLen[m], m + 1)

\* datetime.fromtimestamp(ts): the calendar fields strftime reads
fromtimestamp(ts) ==
    LET n  == ts \div HoursPerDay
        y  == IF n < DaysIn2024 THEN 2024 ELSE 2025
        yd == IF n < DaysIn2024 THEN n ELSE n - DaysIn2024
        md == MonthOf(yd, 1)
    IN  [year |-> y, month |-> md[1], day |-> md[2], yday |-> yd, wday |-> n % 7]

\* the age in days with a started day counted as a whole one
AgeDaysRoundedUp(mtime) ==
    IF Now >= mtime THEN ((Now - mtime) + HoursPerDay - 1) \div HoursPerDay
    ELSE -((mtime - Now) \div HoursPerDay)

\* (datetime.now() - datetime.fromtimestamp(mtime)).days: whole days, floored
AgeDays(mtime) ==
    IF Now >= mtime THEN (Now - mtime) \div HoursPerDay
    ELSE -(((mtime - Now) + HoursPerDay - 1) \div HoursPerDay)

\* file_date.strftime(...) for the five time patterns of get_destination
strftime(pattern, d) ==
    CASE pattern = "MMM"     -> MonthAbbr[d.month]
      [] pattern = "YYYY-MM" -> Str(d.year) \o <<"-">> \o Str2(d.month)
      [] pattern = "Weekly"  ->
            <<"W","e","e","k","_">> \o Str2((d.yday + 7 - d.wday) \div 7)
                \o <<"_">> \o Str(d.year)
      [] pattern = "Daily"   ->
            Str(d.year) \o <<"-">> \o Str2(d.month) \o <<"-">> \o Str2(d.day)
      [] OTHER               -> Str(d.year)

\* ------------------------------------------------------------- file system
\* A file system is [files, dirs]: files is a set of records
\* [dir, name, id, mtime, ctime, atime] with at most one record per
\* (dir, name); id tells one file's content from another's; dirs is the set
\* of existing directories.

isfile(fs, fp) ==
    Len(fp) > 0 /\ \E f \in fs.files : f.dir = Loc(dirname(fp)) /\ f.name = basename(fp)

isdir(fs, p) == Loc(p) \in fs.dirs

\* os.path.exists
exists(fs, p) == isfile(fs, p) \/ isdir(fs, p)

FileAt(fs, fp) ==
    CHOOSE f \in fs.files : f.dir = Loc(dirname(fp)) /\ f.name = basename(fp)

\* os.path.getmtime / getctime / getatime of an existing file
getmtime(fs, fp) == FileAt(fs, fp).mtime
getctime(fs, fp) == FileAt(fs, fp).ctime
getatime(fs, fp) == FileAt(fs, fp).atime

\* the proper prefixes of a directory path and the path itself
Prefixes(p) == {SubSeq(p, 1, k) : k \in 1..Len(p)}

\* os.makedirs(path, exist_ok=True)
makedirs(fs, p) == [fs EXCEPT !.dirs = @ \cup Prefixes(Loc(p))]

\* os.remove(fp) of an existing file
remove(fs, fp) == [fs EXCEPT !.files = @ \ {FileAt(fs, fp)}]

\* ------------------------------------------------------------------- state
VARIABLES
    \* FolderOrganizer.__init__: the configuration of the run
    target_folder,    \* path of the target directory
    folder_rules,     \* sequence of FolderRule records
    filter_actions,   \* sequence of FilterAction records
    settings,         \* AppSettings record
    dry_run,          \* BOOLEAN
    log,              \* self.log: sequence of operation entries
    \* the environment
    posix,            \* os.rename replaces an existing file (POSIX) or raises
    cwd,              \* the process's working directory
    files,            \* the files on disk
    dirs,             \* the directories on disk
    logFiles,         \* the backup files written, each [target_folder, operations]
    \* the position of organize() and its locals
    pc,               \* "idle", "refused", "ready", "walking", "done", "crashed"
    stack,            \* os.walk: the directories still to visit, innermost first
    root,             \* os.walk: the directory being visited
    todo,             \* os.walk: names of root's listing not yet processed
    moved_count,
    created_folders,
    errors,
    files_to_move,
    folders_to_create,
    report,
    \* history of the run, read by the properties only
    runs,             \* how many runs have been started
    prevMode,         \* the mode of the run before this one, "none" at first
    files0,           \* the files when organize() was called
    nMoved,           \* shutil.move calls completed
    nRemoved,         \* os.remove calls completed
    nRenamed,         \* os.rename calls completed
    last,             \* what the latest per-file step did
    vanished,         \* how many files another actor has removed
    prevPlanned,      \* the (file, destination) pairs the dry run before planned
    acted             \* the (file, destination) pairs this run moved or deleted

configVars == <<target_folder, folder_rules, filter_actions, settings, dry_run, posix, cwd>>
diskVars == <<files, dirs, logFiles>>
runVars == <<log, pc, stack, root, todo, moved_count, created_folders, errors,
             files_to_move, folders_to_create, report>>
histVars == <<runs, prevMode, files0, nMoved, nRemoved, nRenamed, last,
              vanished, prevPlanned, acted>>
vars == <<configVars, diskVars, runVars, histVars>>

\* The world an operation reads and changes, threaded through the operators
\* below; the file-system helpers read its files and dirs.
World ==
    [files |-> files, dirs |-> dirs, log |-> log,
     nMoved |-> nMoved, nRemoved |-> nRemoved, nRenamed |-> nRenamed]

\* a falsy return value: None, or the empty string
NoPath == <<>>
DELETE == << <<"D","E","L","E","T","E">> >>
EXCLUDE == << <<"E","X","C","L","U","D","E">> >>

\* Python's `x in list`
InList(x, list) == \E i \in 1..Len(list) : list[i] = x

\* ------------------------------------------------------------ os / shutil
\* os.rename(src, dst) and shutil.move(src, dst) of one file: [w, exc].
\* An existing destination file is replaced on POSIX and raises elsewhere.
RenameTo(w, src, dst) ==
    LET f == FileAt(w, src)
        g == [f EXCEPT !.dir = Loc(dirname(dst)), !.name = basename(dst),
                       !.ctime = IF posix THEN Now ELSE @]
    IN  IF ~isfile(w, src) THEN [w |-> w, exc |-> TRUE]
        ELSE IF Loc(dirname(dst)) = f.dir /\ basename(dst) = f.name
             THEN [w |-> w, exc |-> FALSE]
        ELSE IF isdir(w, dst) \/ ~isdir(w, dirname(dst))
             THEN [w |-> w, exc |-> TRUE]
        ELSE IF isfile(w, dst)
             THEN IF posix
                  THEN [w |-> [w EXCEPT !.files = (@ \ {f, FileAt(w, dst)}) \cup {g}],
                        exc |-> FALSE]
                  ELSE [w |-> w, exc |-> TRUE]
        ELSE [w |-> [w EXCEPT !.files = (@ \ {f}) \cup {g}], exc |-> FALSE]

\* ------------------------------------------------------------ is_excluded
\* settings.exclude_before_date is [given, valid, ts]: not given (None), given
\* and malformed (strptime raises), or given with the timestamp strptime
\* parses.  The file's date is read from the bare file name, that is from the
\* file of that name in the working directory; a failure there is swallowed.
is_excluded(fs, filename) ==
    \/ \E i \in 1..Len(settings.exclude_files) :
            Contains(filename, settings.exclude_files[i])
    \/ /\ settings.exclude_before_date.given
       /\ settings.exclude_before_date.valid
       /\ isfile(fs, Join(cwd, filename))
       /\ getmtime(fs, Join(cwd, filename)) < settings.exclude_before_date.ts

\* ---------------------------------------------------------- apply_filters
RECURSIVE InsertByPriorityUnstable(_, _)
\* i placed before the indices of equal priority: a sort that is not stable
InsertByPriorityUnstable(i, order) ==
    IF order = <<>> THEN <<i>>
    ELSE IF filter_actions[Head(order)].priority > filter_actions[i].priority
         THEN <<Head(order)>> \o InsertByPriorityUnstable(i, Tail(order))
         ELSE <<i>> \o order

RECURSIVE InsertByPriority(_, _)
\* i placed behind every index whose filter has a priority >= its own
InsertByPriority(i, order) ==
    IF order = <<>> THEN <<i>>
    ELSE IF filter_actions[Head(order)].priority >= filter_actions[i].priority
         THEN <<Head(order)>> \o InsertByPriority(i, Tail(order))
         ELSE <<i>> \o order

RECURSIVE SortByPriority(_)
\* sorted(self.filter_actions, key=lambda f: f.priority, reverse=True), as the
\* indices of the first n filters: a stable sort, equal priorities keep the
\* order of the list
SortByPriority(n) ==
    IF n = 0 THEN <<>> ELSE InsertByPriority(n, SortByPriority(n - 1))

sorted_filters == SortByPriority(Len(filter_actions))

\* rename_pattern.replace("{original}", stem); the placeholder is one token
ReplaceOriginal(pattern, stem) ==
    Concat([i \in 1..Len(pattern) |->
                IF pattern[i] = "{original}" THEN stem ELSE <<pattern[i]>>])

\* a rename that forgets the mode
RenameOnDiskAlways == TRUE

\* whether the rename of a matched rename filter is carried out
RenameOnDisk == ~dry_run

\* the action of the matched filter f: [result, w, exc, handled]; handled is
\* FALSE for an action type none of the branches knows, and the loop goes on
FilterActionOf(w, file_path, f) ==
    LET filename == basename(file_path)
        file_ext == Lower(splitext(filename)[2])
        new_name == ReplaceOriginal(f.rename_pattern, splitext(filename)[1])
        new_path == Join(dirname(file_path), new_name \o file_ext)
        rn       == RenameTo(w, file_path, new_path)
    IN  CASE f.action_type = "delete" ->
                [result |-> DELETE, w |-> w, exc |-> FALSE, handled |-> TRUE]
          [] f.action_type = "exclude" ->
                [result |-> EXCLUDE, w |-> w, exc |-> FALSE, handled |-> TRUE]
          [] f.action_type \in {"move", "move_external"} ->
                [result |-> f.destination, w |-> w, exc |-> FALSE, handled |-> TRUE]
          [] f.action_type = "rename" ->
                IF ~RenameOnDisk
                THEN [result |-> NoPath, w |-> w, exc |-> FALSE, handled |-> TRUE]
                ELSE IF rn.exc
                THEN [result |-> NoPath, w |-> w, exc |-> TRUE, handled |-> TRUE]
                ELSE [result |-> NoPath,
                      w |-> IF rn.w = w THEN w
                            ELSE [rn.w EXCEPT !.nRenamed = @ + 1],
                      exc |-> FALSE, handled |-> TRUE]
          [] OTHER ->
                [result |-> NoPath, w |-> w, exc |-> FALSE, handled |-> FALSE]

\* the three criteria of filter f on the file, in the order the code tests
\* them: [matches, exc]; the age is read only when the others hold, and
\* reading it raises when the file is gone
FilterMatches(w, file_path, f) ==
    LET filename == basename(file_path)
        file_ext == Lower(splitext(filename)[2])
        typesOK  == f.file_types = <<>> \/ InList(file_ext, f.file_types)
        nameOK   == f.name_contains = <<>>
                        \/ Contains(Lower(filename), Lower(f.name_contains))
        readsAge == typesOK /\ nameOK /\ f.older_than_days # 0
    IN  IF readsAge /\ ~isfile(w, file_path)
        THEN [matches |-> FALSE, exc |-> TRUE]
        ELSE [matches |-> /\ typesOK
                          /\ nameOK
                          /\ (readsAge =>
                                AgeDays(getmtime(w, file_path)) >= f.older_than_days),
              exc |-> FALSE]

RECURSIVE FilterLoopAll(_, _, _)
\* the loop over the sorted filters without `if not filter_action.enabled`
FilterLoopAll(w, file_path, order) ==
    IF order = <<>> THEN [result |-> NoPath, w |-> w, exc |-> FALSE, sel |-> 0]
    ELSE LET f == filter_actions[Head(order)]
             m == FilterMatches(w, file_path, f)
             a == FilterActionOf(w, file_path, f)
         IN  IF m.exc THEN [result |-> NoPath, w |-> w, exc |-> TRUE, sel |-> 0]
             ELSE IF m.matches /\ a.handled
                  THEN [result |-> a.result, w |-> a.w, exc |-> a.exc,
                        sel |-> Head(order)]
             ELSE FilterLoopAll(w, file_path, Tail(order))

RECURSIVE FilterLoop(_, _, _)
\* for filter_action in sorted_filters: ...   [result, w, exc, sel]; sel is
\* the index in filter_actions of the filter whose action was taken, or 0
FilterLoop(w, file_path, order) ==
    IF order = <<>> THEN [result |-> NoPath, w |-> w, exc |-> FALSE, sel |-> 0]
    ELSE LET f == filter_actions[Head(order)]
             m == FilterMatches(w, file_path, f)
             a == FilterActionOf(w, file_path, f)
         IN  IF ~f.enabled THEN FilterLoop(w, file_path, Tail(order))
             ELSE IF m.exc THEN [result |-> NoPath, w |-> w, exc |-> TRUE, sel |-> 0]
             ELSE IF m.matches /\ a.handled
                  THEN [result |-> a.result, w |-> a.w, exc |-> a.exc,
                        sel |-> Head(order)]
             ELSE FilterLoop(w, file_path, Tail(order))

apply_filters(w, file_path) == FilterLoop(w, file_path, sorted_filters)

\* -------------------------------------------------------- get_destination
RECURSIVE InsertByLevel(_, _)
\* i placed behind every index whose rule has a level <= its own
InsertByLevel(i, order) ==
    IF order = <<>> THEN <<i>>
    ELSE IF folder_rules[Head(order)].hierarchy_level <= folder_rules[i].hierarchy_level
         THEN <<Head(order)>> \o InsertByLevel(i, Tail(order))
         ELSE <<i>> \o order

RECURSIVE SortByLevel(_)
\* sorted(self.folder_rules, key=lambda r: r.hierarchy_level), as indices
SortByLevel(n) ==
    IF n = 0 THEN <<>> ELSE InsertByLevel(n, SortByLevel(n - 1))

sorted_rules == SortByLevel(Len(folder_rules))

\* the rules of a level, the disabled ones too
level_rules_any(level) ==
    SelectSeq(sorted_rules, LAMBDA i : folder_rules[i].hierarchy_level = level)

\* [r for r in sorted_rules if r.hierarchy_level == level and r.enabled]
level_rules(level) ==
    SelectSeq(sorted_rules,
              LAMBDA i : folder_rules[i].hierarchy_level = level
                            /\ folder_rules[i].enabled)

\* get_file_date(file_path, date_source) of an existing file
get_file_date(fs, file_path, date_source) ==
    CASE date_source = "created"  -> getctime(fs, file_path)
      [] date_source = "accessed" -> getatime(fs, file_path)
      [] OTHER                    -> getmtime(fs, file_path)

RECURSIVE RuleLoop(_, _, _, _)
\* for rule in level_rules: ... break    [dest, exc]: the path after this
\* level; reading a time-based rule's date raises when the file is gone
RuleLoop(fs, file_path, dest_path, rules) ==
    IF rules = <<>> THEN [dest |-> dest_path, exc |-> FALSE]
    ELSE LET rule     == folder_rules[Head(rules)]
             file_ext == Lower(splitext(basename(file_path))[2])
         IN  IF rule.is_time_based
             THEN IF ~isfile(fs, file_path)
                  THEN [dest |-> dest_path, exc |-> TRUE]
                  ELSE [dest |-> Join(dest_path,
                                      strftime(rule.time_pattern,
                                               fromtimestamp(get_file_date(
                                                   fs, file_path, rule.date_source)))),
                        exc |-> FALSE]
             ELSE IF InList(file_ext, rule.file_extensions)
                  THEN [dest |-> Join(dest_path, rule.folder_name), exc |-> FALSE]
             ELSE RuleLoop(fs, file_path, dest_path, Tail(rules))

\* the hierarchy levels get_destination walks: range(1, 6)
FirstLevel == 1
LastLevel == 5

RECURSIVE LevelLoop(_, _, _, _)
\* for level in range(level, 6): ...
LevelLoop(fs, file_path, dest_path, level) ==
    IF level > LastLevel THEN [dest |-> dest_path, exc |-> FALSE]
    ELSE LET r == RuleLoop(fs, file_path, dest_path, level_rules(level))
         IN  IF r.exc THEN r
             ELSE LevelLoop(fs, file_path, r.dest, level + 1)

\* get_destination that returns the target folder itself instead of None
get_destination_never_none(fs, file_path) ==
    LET r == LevelLoop(fs, file_path, target_folder, FirstLevel)
    IN  IF r.exc THEN [dest |-> NoPath, exc |-> TRUE]
        ELSE [dest |-> r.dest, exc |-> FALSE]

\* get_destination(file_path): [dest, exc]; dest is NoPath for None
get_destination(fs, file_path) ==
    LET r == LevelLoop(fs, file_path, target_folder, FirstLevel)
    IN  IF r.exc THEN [dest |-> NoPath, exc |-> TRUE]
        ELSE [dest |-> IF r.dest # target_folder THEN r.dest ELSE NoPath,
              exc |-> FALSE]

\* -------------------------------------------------------------- move_file
RECURSIVE FreePath(_, _, _, _, _)
\* while os.path.exists(dest_path): dest_path = f"{base}_{counter}{ext}"
FreePath(fs, dest_dir, base, ext, counter) ==
    LET dest_path == Join(dest_dir, base \o <<"_">> \o Str(counter) \o ext)
    IN  IF exists(fs, dest_path)
        THEN FreePath(fs, dest_dir, base, ext, counter + 1)
        ELSE dest_path

\* the first number move_file tries as a suffix
FirstCounter == 1

\* a colliding file given the suffix _1 without looking for a free name
RenamedPathNoProbe(fs, dest_dir, filename) ==
    Join(dest_dir, splitext(filename)[1] \o <<"_">> \o Str(FirstCounter)
                        \o splitext(filename)[2])

\* the path a colliding file is moved to when duplicates are kept
RenamedPath(fs, dest_dir, filename) ==
    FreePath(fs, dest_dir, splitext(filename)[1], splitext(filename)[2], FirstCounter)

\* the comparison turned around: the older file is kept
SourceIsOlder(fs, src, dest_path) == getmtime(fs, src) < getmtime(fs, dest_path)

\* `os.path.getmtime(src) > os.path.getmtime(dest_path)`: the source is kept
SourceIsNewer(fs, src, dest_path) == getmtime(fs, src) > getmtime(fs, dest_path)

\* shutil.move(src, dest_path); self.log.append("Moved: ..."): [w, exc]
MoveAndLog(w, src, dest_path) ==
    LET mv == RenameTo(w, src, dest_path)
    IN  IF mv.exc THEN [w |-> w, exc |-> TRUE]
        ELSE [w |-> [mv.w EXCEPT
                        !.log = Append(@, [op |-> "Moved", src |-> src,
                                           dest |-> dest_path]),
                        !.nMoved = @ + 1],
              exc |-> FALSE]

\* move_file(src, dest_dir): [w, exc]
move_file(w, src, dest_dir) ==
    LET filename  == basename(src)
        dest_path == Join(dest_dir, filename)
    IN  IF exists(w, dest_path)
        THEN IF settings.delete_duplicates
             THEN IF ~isfile(w, src) \/ ~isfile(w, dest_path)
                  THEN [w |-> w, exc |-> TRUE]
                  ELSE IF SourceIsNewer(w, src, dest_path)
                  THEN MoveAndLog([remove(w, dest_path) EXCEPT !.nRemoved = @ + 1],
                                  src, dest_path)
                  ELSE [w |-> [remove(w, src) EXCEPT !.nRemoved = @ + 1],
                        exc |-> FALSE]
             ELSE MoveAndLog(w, src, RenamedPath(w, dest_dir, filename))
        ELSE MoveAndLog(w, src, dest_path)

\* ---------------------------------------------------- create_backup_log
\* create_backup_log(): the log directory is made and one backup file is
\* written, holding the operations self.log lists at the time of the call
create_backup_log(w, written) ==
    [w |-> makedirs(w, settings.log_directory),
     written |-> Append(written, [target_folder |-> target_folder,
                                  operations |-> w.log])]

\* ------------------------------------------------------- the per-file steps
\* `any(rule.folder_name in root for rule in self.folder_rules
\*      if not rule.is_time_based)` under settings.exclude_organized_folders
SkipOrganized(dir) ==
    /\ settings.exclude_organized_folders
    /\ \E i \in 1..Len(folder_rules) :
            /\ ~folder_rules[i].is_time_based
            /\ Contains(PathStr(dir), folder_rules[i].folder_name)

\* the outcome of one iteration of a file loop
\* (moveTo is the directory handed to move_file, NoPath when it is not called)
Outcome(w, moved, created, err, sel, result, dest, planned, moveTo) ==
    [w |-> w, moved |-> moved, created |-> created, err |-> err, sel |-> sel,
     result |-> result, dest |-> dest, planned |-> planned, moveTo |-> moveTo]

\* perform_organization: the body of `for file in files` after the exclusion
\* check, with its try/except
ApplyFile(w, dir, file) ==
    LET file_path == Join(dir, file)
        fr  == apply_filters(w, file_path)
        gd  == get_destination(fr.w, file_path)
        w1  == IF ~exists(fr.w, gd.dest) THEN makedirs(fr.w, gd.dest) ELSE fr.w
        new == IF ~exists(fr.w, gd.dest) THEN {gd.dest} ELSE {}
        mvF == move_file(fr.w, file_path, fr.result)
        mvR == move_file(w1, file_path, gd.dest)
    IN  IF fr.exc
        THEN Outcome(fr.w, 0, {}, TRUE, fr.sel, NoPath, NoPath, FALSE, NoPath)
        ELSE IF fr.result # NoPath
        THEN IF fr.result = DELETE
             THEN IF ~isfile(fr.w, file_path)
                  THEN Outcome(fr.w, 0, {}, TRUE, fr.sel, fr.result, NoPath, FALSE, NoPath)
                  ELSE Outcome([remove(fr.w, file_path) EXCEPT
                                    !.log = Append(@, [op |-> "Deleted",
                                                       src |-> file_path,
                                                       dest |-> NoPath]),
                                    !.nRemoved = @ + 1],
                               0, {}, FALSE, fr.sel, fr.result, NoPath, FALSE, NoPath)
             ELSE IF fr.result # EXCLUDE
             THEN Outcome(mvF.w, IF mvF.exc THEN 0 ELSE 1, {}, mvF.exc, fr.sel,
                          fr.result, NoPath, FALSE, fr.result)
             ELSE Outcome(fr.w, 0, {}, FALSE, fr.sel, fr.result, NoPath, FALSE, NoPath)
        ELSE IF gd.exc
        THEN Outcome(fr.w, 0, {}, TRUE, fr.sel, NoPath, NoPath, FALSE, NoPath)
        ELSE IF gd.dest # NoPath /\ gd.dest # dir
        THEN Outcome(mvR.w, IF mvR.exc THEN 0 ELSE 1, new, mvR.exc, fr.sel,
                     NoPath, gd.dest, FALSE, gd.dest)
        ELSE Outcome(fr.w, 0, {}, FALSE, fr.sel, NoPath, gd.dest, FALSE, NoPath)

\* generate_dry_run_report: the body of `for file in files` after the
\* exclusion check; nothing catches an exception here (err ends the run)
DryFile(w, dir, file) ==
    LET file_path == Join(dir, file)
        fr == apply_filters(w, file_path)
        gd == get_destination(fr.w, file_path)
    IN  IF fr.exc
        THEN Outcome(fr.w, 0, {}, TRUE, fr.sel, NoPath, NoPath, FALSE, NoPath)
        ELSE IF fr.result # NoPath
        THEN Outcome(fr.w, 0, {}, FALSE, fr.sel, fr.result, NoPath, TRUE, NoPath)
        ELSE IF gd.exc
        THEN Outcome(fr.w, 0, {}, TRUE, fr.sel, NoPath, NoPath, FALSE, NoPath)
        ELSE IF gd.dest # NoPath /\ gd.dest # dir
        THEN Outcome(fr.w, 0, {gd.dest}, FALSE, fr.sel, NoPath, gd.dest, TRUE, NoPath)
        ELSE Outcome(fr.w, 0, {}, FALSE, fr.sel, NoPath, gd.dest, FALSE, NoPath)

\* ------------------------------------------------------ the inputs drawn
\* names
tDir == <<"t">>
sDir == <<"s">>
DDir == <<"D">>
EDir == <<"E">>
xDir == <<"x">>
mDir == <<"m">>
lDir == <<"l">>
extP == <<".", "p">>
extT == <<".", "t">>
aP == <<"a", ".", "p">>
aP1 == <<"a", "_", "1", ".", "p">>
bT == <<"b", ".", "t">>
zP == <<"z", ".", "p">>
cUP == <<"c", ".", "P">>

\* ages: 45 days, 10 days, and one hour short of 30 days
Old == Now - 45 * HoursPerDay
Recent == Now - 10 * HoursPerDay
Almost30 == Now - 30 * HoursPerDay + 1

File(dir, name, id, mtime) ==
    [dir |-> dir, name |-> name, id |-> id, mtime |-> mtime,
     ctime |-> mtime, atime |-> mtime]

\* FolderRule(name, enabled, hierarchy_level, folder_name, file_extensions,
\*            is_time_based, time_pattern, date_source)
Rule(name, enabled, level, folder, exts) ==
    [name |-> name, enabled |-> enabled, hierarchy_level |-> level,
     folder_name |-> folder, file_extensions |-> exts, is_time_based |-> FALSE,
     time_pattern |-> "MMM", date_source |-> "modified"]

TimeRule(name, enabled, level, pattern, source) ==
    [name |-> name, enabled |-> enabled, hierarchy_level |-> level,
     folder_name |-> <<>>, file_extensions |-> <<>>, is_time_based |-> TRUE,
     time_pattern |-> pattern, date_source |-> source]

\* FilterAction(name, enabled, file_types, name_contains, older_than_days,
\*              action_type, destination, rename_pattern, priority);
\* older_than_days 0 stands for None (both are falsy in the age test)
Filter(name, enabled, types, contains, older, action, dest, pattern, priority) ==
    [name |-> name, enabled |-> enabled, file_types |-> types,
     name_contains |-> contains, older_than_days |-> older,
     action_type |-> action, destination |-> dest, rename_pattern |-> pattern,
     priority |-> priority]

ByMonth == TimeRule("ByMonth", TRUE, 1, "MMM", "modified")
Documents == Rule("Documents", TRUE, 2, DDir, <<extP>>)
Extra == Rule("Extra", TRUE, 2, EDir, <<extP, extT>>)
Disabled == Rule("Disabled", FALSE, 1, xDir, <<extP>>)
\* a disabled rule whose folder name is the name of a directory of the tree
Shelved == Rule("Shelved", FALSE, 1, sDir, <<extP>>)
\* a rule whose folder name is part of the target folder's own path
Home == Rule("Home", TRUE, 1, tDir, <<extT>>)

DeleteOldT == Filter("DeleteOldT", TRUE, <<extT>>, <<>>, 30, "delete", NoPath, <<>>, 1)
ExcludeB == Filter("ExcludeB", TRUE, <<>>, <<"B">>, 0, "exclude", NoPath, <<>>, 1)
MoveP == Filter("MoveP", TRUE, <<extP>>, <<>>, 0, "move", <<xDir>>, <<>>, 2)
\* a move filter whose destination is a directory of the target tree
MoveIn == Filter("MoveIn", TRUE, <<extP>>, <<"a">>, 0, "move", <<tDir, sDir>>, <<>>, 1)
MoveAway == Filter("MoveAway", TRUE, <<>>, <<>>, 0, "move_external", <<mDir>>, <<>>, 0)
RenameP == Filter("RenameP", TRUE, <<extP>>, <<>>, 0, "rename", NoPath,
                  <<"{original}", "_", "1">>, 3)

\* the folder-rule lists and filter lists a run is configured with
RuleLists ==
    { <<>>, <<Documents>>, <<ByMonth>>, <<Documents, ByMonth>>,
      <<Extra, Documents>>, <<Shelved, Documents>> }

FilterLists ==
    { <<>>, <<DeleteOldT>>, <<ExcludeB>>, <<MoveP>>, <<RenameP>>,
      <<MoveAway, MoveP>>, <<ExcludeB, DeleteOldT>>, <<MoveP, RenameP>> }

\* settings.exclude_folders, a non-empty list as the default of AppSettings is
ExcludedFolders == <<sDir>>

\* AppSettings(create_backup_log, delete_duplicates, exclude_organized_folders,
\*             exclude_files); the other fields as a run here needs them
Settings(backup, dedup, organized, names) ==
    [create_backup_log |-> backup, delete_duplicates |-> dedup,
     exclude_organized_folders |-> organized,
     exclude_before_date |-> [given |-> FALSE, valid |-> FALSE, ts |-> 0],
     exclude_folders |-> ExcludedFolders, exclude_files |-> names,
     log_directory |-> <<lDir>>]

\* the defaults of AppSettings, with no excluded names
DefaultSettings == Settings(TRUE, FALSE, TRUE, <<>>)

ExcludedNames == << <<"z">>, <<"_", "1">> >>

\* exclude_before_date: midnight of the 81st day of the year, between the
\* dates of the old files and of the recent ones
Cutoff == 80 * HoursPerDay

DatedSettings ==
    [Settings(FALSE, FALSE, FALSE, <<>>) EXCEPT
        !.exclude_before_date = [given |-> TRUE, valid |-> TRUE, ts |-> Cutoff]]

SettingsSet ==
    { DefaultSettings,
      Settings(TRUE, TRUE, TRUE, <<>>),
      Settings(FALSE, FALSE, FALSE, <<>>),
      Settings(FALSE, TRUE, FALSE, <<>>),
      Settings(TRUE, FALSE, TRUE, ExcludedNames),
      Settings(FALSE, TRUE, FALSE, ExcludedNames),
      DatedSettings }

\* the trees a run starts on: [files, dirs]
Tree1 ==
    [files |-> { File(<<tDir>>, aP, 1, Old), File(<<tDir>>, bT, 2, Old),
                 File(<<tDir>>, zP, 3, Recent),
                 File(<<tDir, sDir>>, aP, 4, Recent),
                 File(<<tDir, sDir>>, bT, 6, Almost30),
                 File(<<tDir, DDir>>, aP, 5, Almost30) },
     dirs  |-> { <<tDir>>, <<tDir, sDir>>, <<tDir, DDir>>, <<xDir>> }]

Tree2 ==
    [files |-> { File(<<tDir>>, aP, 1, Recent), File(<<tDir>>, aP1, 2, Old),
                 File(<<tDir>>, cUP, 3, Old), File(<<xDir>>, aP, 4, Almost30) },
     dirs  |-> { <<tDir>>, <<xDir>> }]

\* the target folder is missing
Tree0 ==
    [files |-> { File(<<xDir>>, aP, 1, Recent) },
     dirs  |-> { <<xDir>> }]

Trees == {Tree0, Tree1, Tree2}

\* how many runs in a row are followed
MaxRuns == 2

\* report samples: files_to_move[:10], errors[:10]
SampleSize == 10

Sample(seq) == SubSeq(seq, 1, IF Len(seq) < SampleSize THEN Len(seq) ELSE SampleSize)

NoStep ==
    [path |-> NoPath, excluded |-> FALSE, sel |-> 0, result |-> NoPath,
     dest |-> NoPath, err |-> FALSE, planned |-> FALSE, moved |-> 0,
     moveTo |-> NoPath]

NoReport == [kind |-> "none"]

\* -------------------------------------------------------------------- Init
\* os.rename is what differs between the platforms, and only a rename filter
\* calls it: the platform is varied for the filter lists that hold one; the
\* working directory is read by the date exclusion only, and is varied (the
\* target folder, or another directory) when a date is set
Renames(filters) == \E i \in 1..Len(filters) : filters[i].action_type = "rename"

\* a FolderOrganizer just constructed, on a disk nothing has run on yet
InitRun ==
    /\ target_folder = <<tDir>>
    /\ posix \in IF Renames(filter_actions) THEN BOOLEAN ELSE {TRUE}
    /\ cwd \in IF settings.exclude_before_date.given
               THEN {<<xDir>>, <<tDir>>} ELSE {<<xDir>>}
    /\ \E tree \in Trees : files = tree.files /\ dirs = tree.dirs /\ files0 = tree.files
    /\ logFiles = <<>>
    /\ log = <<>>
    /\ pc = "idle"
    /\ stack = <<>>
    /\ root = NoPath
    /\ todo = {}
    /\ moved_count = 0
    /\ created_folders = {}
    /\ errors = <<>>
    /\ files_to_move = <<>>
    /\ folders_to_create = {}
    /\ report = NoReport
    /\ runs = 0
    /\ vanished = 0
    /\ prevPlanned = {}
    /\ acted = {}
    /\ prevMode = "none"
    /\ nMoved = 0
    /\ nRemoved = 0
    /\ nRenamed = 0
    /\ last = NoStep

Init ==
    /\ folder_rules \in RuleLists
    /\ filter_actions \in FilterLists
    /\ settings \in SettingsSet
    /\ dry_run = FALSE
    /\ InitRun

\* ----------------------------------------------------------------- actions
\* organize(): a dry run starts its walk; an apply run first writes the
\* backup log when settings.create_backup_log is set, then starts its walk
organize ==
    /\ pc = "ready"
    /\ LET cb == create_backup_log(World, logFiles)
       IN  IF ~dry_run /\ settings.create_backup_log
           THEN /\ dirs' = cb.w.dirs
                /\ logFiles' = cb.written
           ELSE UNCHANGED <<dirs, logFiles>>
    /\ pc' = "walking"
    /\ stack' = << {target_folder} >>
    /\ UNCHANGED <<configVars, files, log, root, todo, moved_count, created_folders,
                   errors, files_to_move, folders_to_create, report, histVars>>

\* os.walk yields the next directory: its files are listed, its
\* subdirectories are queued, and an already-organized directory is skipped
VisitDir ==
    /\ pc = "walking"
    /\ todo = {}
    /\ stack # <<>>
    /\ \E d \in Head(stack) :
        LET rest  == IF Head(stack) = {d} THEN Tail(stack)
                     ELSE << Head(stack) \ {d} >> \o Tail(stack)
            subs  == {p \in dirs : Len(p) > 1 /\ Front(p) = d}
            names == {f.name : f \in {g \in files : g.dir = d}}
        IN  /\ root' = d
            /\ stack' = IF d \in dirs /\ subs # {} THEN <<subs>> \o rest ELSE rest
            /\ todo' = IF d \in dirs /\ ~SkipOrganized(d) THEN names ELSE {}
    /\ UNCHANGED <<configVars, diskVars, log, pc, moved_count, created_folders,
                   errors, files_to_move, folders_to_create, report, histVars>>

\* list.sort(...): the list itself is put in the order given
SortedInPlace(list, order) == [i \in 1..Len(order) |-> list[order[i]]]

\* sorted(list, ...) builds a new list in the order given: the list it was
\* called on is as it was
LeftAsIs(list, order) == list

\* no iteration runs under a try/except
CaughtNever == FALSE

\* the body of the file loop runs under try/except in perform_organization,
\* and bare in generate_dry_run_report
Caught == ~dry_run

\* one iteration of `for file in files`, of either mode
ProcessFile ==
    /\ pc = "walking"
    /\ \E file \in todo :
      \E out \in {IF dry_run THEN DryFile(World, root, file)
                    ELSE ApplyFile(World, root, file)} :
        LET excl == is_excluded(World, file)
            path == Join(root, file)
        IN  /\ todo' = todo \ {file}
            /\ IF excl
               THEN /\ last' = [NoStep EXCEPT !.path = path, !.excluded = TRUE]
                    /\ UNCHANGED <<diskVars, log, pc, moved_count, created_folders,
                                   errors, files_to_move, folders_to_create,
                                   nMoved, nRemoved, nRenamed, acted>>
               ELSE /\ files' = out.w.files
                    /\ dirs' = out.w.dirs
                    /\ log' = out.w.log
                    /\ nMoved' = out.w.nMoved
                    /\ nRemoved' = out.w.nRemoved
                    /\ nRenamed' = out.w.nRenamed
                    /\ moved_count' = moved_count + out.moved
                    /\ created_folders' =
                            IF dry_run THEN created_folders
                            ELSE created_folders \cup out.created
                    /\ folders_to_create' =
                            IF dry_run THEN folders_to_create \cup out.created
                            ELSE folders_to_create
                    /\ files_to_move' =
                            IF out.planned
                            THEN Append(files_to_move,
                                        <<path, IF out.result # NoPath
                                                THEN out.result ELSE out.dest>>)
                            ELSE files_to_move
                    /\ errors' = IF Caught /\ out.err
                                 THEN Append(errors, [file |-> file])
                                 ELSE errors
                    /\ pc' = IF ~Caught /\ out.err THEN "crashed" ELSE pc
                    /\ last' = [path |-> path, excluded |-> FALSE, sel |-> out.sel,
                                result |-> out.result, dest |-> out.dest,
                                err |-> out.err, planned |-> out.planned,
                                moved |-> out.moved, moveTo |-> out.moveTo]
                    /\ acted' =
                            IF dry_run \/ out.err THEN acted
                            ELSE IF out.result = DELETE
                            THEN acted \cup {<<path, DELETE>>}
                            ELSE IF out.moveTo # NoPath
                            THEN acted \cup {<<path, out.moveTo>>}
                            ELSE acted
                    /\ UNCHANGED logFiles
            /\ filter_actions' = IF excl THEN filter_actions
                                 ELSE LeftAsIs(filter_actions, sorted_filters)
            /\ folder_rules' = IF excl \/ out.result # NoPath THEN folder_rules
                               ELSE LeftAsIs(folder_rules, sorted_rules)
    /\ UNCHANGED <<target_folder, settings, dry_run, posix, cwd, stack, root,
                   report, runs, prevMode, files0, vanished, prevPlanned>>

\* the walk is over: the report is composed and returned
Finish ==
    /\ pc = "walking"
    /\ todo = {}
    /\ stack = <<>>
    /\ pc' = "done"
    /\ report' =
        IF dry_run
        THEN [kind |-> "dry", files_to_move |-> Len(files_to_move),
              folders_to_create |-> Cardinality(folders_to_create),
              sample |-> Sample(files_to_move)]
        ELSE [kind |-> "apply", moved |-> moved_count,
              created |-> Cardinality(created_folders),
              errors |-> Len(errors), sample |-> Sample(errors)]
    /\ UNCHANGED <<configVars, diskVars, log, stack, root, todo, moved_count,
                   created_folders, errors, files_to_move, folders_to_create,
                   histVars>>

\* organize_files without its check of the target folder
TargetAssumed == TRUE

\* organize_files: the target folder must exist, or the request is refused
\* with an error box
TargetExists == exists(World, target_folder)

\* organize_files(dry_run): refuses when the target folder is missing, else
\* builds a new FolderOrganizer for a run, dry or not, on the tree and
\* configuration as they are now (a declined confirmation changes nothing)
NewRun ==
    /\ pc \in {"idle", "refused", "done"}
    /\ runs < MaxRuns
    /\ runs' = runs + 1
    /\ IF ~TargetExists
       THEN /\ pc' = "refused"
            /\ report' = [kind |-> "error"]
            /\ UNCHANGED <<dry_run, log, root, moved_count, created_folders,
                           errors, files_to_move, folders_to_create, prevMode,
                           files0, nMoved, nRemoved, nRenamed, last,
                           prevPlanned, acted>>
       ELSE /\ prevMode' = IF pc = "done"
                           THEN IF dry_run THEN "dry" ELSE "apply"
                           ELSE prevMode
            /\ dry_run' \in BOOLEAN
            /\ log' = <<>>
            /\ pc' = "ready"
            /\ root' = NoPath
            /\ moved_count' = 0
            /\ created_folders' = {}
            /\ errors' = <<>>
            /\ files_to_move' = <<>>
            /\ folders_to_create' = {}
            /\ report' = NoReport
            /\ files0' = files
            /\ nMoved' = 0
            /\ nRemoved' = 0
            /\ nRenamed' = 0
            /\ last' = NoStep
            /\ prevPlanned' =
                    IF pc # "done" THEN prevPlanned
                    ELSE IF dry_run
                    THEN {files_to_move[i] : i \in 1..Len(files_to_move)}
                    ELSE {}
            /\ acted' = {}
    /\ UNCHANGED <<target_folder, folder_rules, filter_actions, settings, posix, cwd,
                   diskVars, stack, todo, vanished>>

Next == organize \/ VisitDir \/ ProcessFile \/ Finish \/ NewRun

Spec == Init /\ [][Next]_vars

\* ------------------------------------------------------------- properties
\* a per-file step has just been taken (only ProcessFile shrinks todo)
Stepped == todo' # todo /\ todo' \subseteq todo

\* the file-system entry of the file the step just taken was about, before it
Subject == FileAt(World, last'.path)

\* C1: a dry run changes nothing on disk: no file is moved, deleted or
\* renamed (also when a rename filter matches), no directory is created and
\* no backup log is written.
C1_DryRunMutatesNothing ==
    [][dry_run => files' = files /\ dirs' = dirs /\ logFiles' = logFiles]_vars

\* a dry run in which a rename filter has just matched a file, with backup
\* logging switched on
C1_Witness ==
    /\ dry_run
    /\ pc = "walking"
    /\ settings.create_backup_log
    /\ last.sel > 0
    /\ filter_actions[last.sel].action_type = "rename"
    /\ last.path # NoPath

\* a file name that contains an entry of settings.exclude_files
NameExcluded(name) ==
    \E i \in 1..Len(settings.exclude_files) : Contains(name, settings.exclude_files[i])

\* C2: a file whose name contains an entry of settings.exclude_files is
\* never moved, deleted or renamed by a run, nor counted as a planned move:
\* it stays on disk as it was when the run began.
C2_ExcludedFilesUntouched ==
    \A f \in files0 :
        NameExcluded(f.name) =>
            /\ f \in files
            /\ \A i \in 1..Len(files_to_move) :
                    files_to_move[i][1] # Join(f.dir, f.name)

\* the gate alone: the step about a file with an excluded name does nothing
C2_GateHolds ==
    [][Stepped /\ NameExcluded(basename(last'.path)) =>
            /\ last'.excluded
            /\ files' = files /\ dirs' = dirs /\ log' = log
            /\ files_to_move' = files_to_move /\ moved_count' = moved_count]_vars

\* the name move_file must give a file arriving in directory d: its own when
\* free, else the stem with the smallest free suffix _k, k >= 1
Suffixed(name, k) ==
    splitext(name)[1] \o <<"_">> \o Str(k) \o splitext(name)[2]

ArrivalName(d, name) ==
    IF ~exists(World, Join(d, name)) THEN name
    ELSE Suffixed(name,
            CHOOSE k \in 1..(Cardinality(files) + 1) :
                /\ ~exists(World, Join(d, Suffixed(name, k)))
                /\ \A j \in 1..(k - 1) : exists(World, Join(d, Suffixed(name, j))))

\* C3: with delete_duplicates off, a move never overwrites: every other file
\* stays as it was, and the arriving file is stored under its own name when
\* that is free and else under <stem>_k<ext> with the smallest free k >= 1.
C3_CollisionsAreSuffixed ==
    [][(Stepped /\ ~settings.delete_duplicates /\ nMoved' = nMoved + 1) =>
            /\ files \ {Subject} \subseteq files'
            /\ Cardinality(files') = Cardinality(files)
            /\ \E g \in files' \ files :
                    /\ g.id = Subject.id
                    /\ g.dir = Loc(last'.moveTo)
                    /\ g.name = ArrivalName(last'.moveTo, Subject.name)]_vars

\* the second colliding arrival of a name: a.p, a_1.p and a_2.p side by side
C3_Witness ==
    /\ ~settings.delete_duplicates
    /\ ~dry_run
    /\ nMoved >= 2
    /\ \E d \in dirs : \A n \in {aP, aP1, <<"a", "_", "2", ".", "p">>} :
            \E f \in files : f.dir = d /\ f.name = n

\* move_file has just been asked to move a file to where another file of the
\* same name is, with delete_duplicates on
DedupCase ==
    /\ Stepped
    /\ settings.delete_duplicates
    /\ last'.moveTo # NoPath
    /\ nRenamed' = nRenamed
    /\ isfile(World, last'.path)
    /\ isfile(World, Join(last'.moveTo, basename(last'.path)))
    /\ FileAt(World, Join(last'.moveTo, basename(last'.path))) # Subject

Existing == FileAt(World, Join(last'.moveTo, basename(last'.path)))

\* C4: with delete_duplicates on and another file of the same name at the
\* destination, the older of the two is deleted and the newer one is the
\* only file at the destination path; an older source is deleted, the
\* destination file stays as it is and nothing is moved.
C4_DedupKeepsNewest ==
    [][DedupCase =>
        /\ Subject.mtime > Existing.mtime =>
                /\ \A g \in files' : g.id # Existing.id
                /\ \E g \in files' :
                        /\ g.id = Subject.id
                        /\ g.dir = Existing.dir /\ g.name = Existing.name
                /\ Cardinality(files') = Cardinality(files) - 1
        /\ Subject.mtime < Existing.mtime =>
                /\ files' = files \ {Subject}
                /\ nMoved' = nMoved]_vars

\* an older source has just been deleted, as the first change of the run:
\* it is gone, the newer file at the destination is the one of the start,
\* and nothing was moved
C4_Witness ==
    /\ settings.delete_duplicates
    /\ ~dry_run
    /\ pc = "walking"
    /\ last.moveTo # NoPath
    /\ ~last.err
    /\ ~isfile(World, last.path)
    /\ \E e \in files \cap files0 :
            e.dir = Loc(last.moveTo) /\ e.name = basename(last.path)
    /\ nMoved = 0
    /\ nRemoved = 1

\* ------------------------------------------- apply_filters and get_destination
\* called on their own, on every rule list and filter list up to a length
SeqsUpTo(S, n) == UNION {[1..k -> S] : k \in 0..n}

DisabledTop == Filter("DisabledTop", FALSE, <<>>, <<>>, 0, "delete", NoPath, <<>>, 5)
FilterPool == {DeleteOldT, ExcludeB, MoveP, MoveAway, RenameP, DisabledTop}

ByYearCreated == TimeRule("ByYearCreated", TRUE, 3, "Yearly", "created")
Texts == Rule("Texts", TRUE, 1, xDir, <<extT>>)
RulePool == {ByMonth, Documents, Extra, Disabled, ByYearCreated, Texts}

InitFilters ==
    /\ folder_rules = <<>>
    /\ filter_actions \in SeqsUpTo(FilterPool, MaxFilters)
    /\ settings = DefaultSettings
    /\ dry_run \in BOOLEAN
    /\ InitRun

InitDest ==
    /\ folder_rules \in SeqsUpTo(RulePool, MaxRules)
    /\ filter_actions = <<>>
    /\ settings = DefaultSettings
    /\ dry_run \in BOOLEAN
    /\ InitRun

\* filter_result = self.apply_filters(file_path), on any file of the tree
CallApplyFilters ==
    /\ pc = "idle"
    /\ \E f \in files :
        \E r \in {apply_filters(World, Join(f.dir, f.name))} :
            /\ files' = r.w.files
            /\ nRenamed' = r.w.nRenamed
            /\ last' = [NoStep EXCEPT !.path = Join(f.dir, f.name), !.sel = r.sel,
                                      !.result = r.result, !.err = r.exc]
    /\ pc' = "returned"
    /\ UNCHANGED <<configVars, dirs, logFiles, log, stack, root, todo, moved_count,
                   created_folders, errors, files_to_move, folders_to_create, report,
                   runs, prevMode, files0, nMoved, nRemoved, vanished,
                   prevPlanned, acted>>

\* dest = self.get_destination(file_path), on any file of the tree
CallGetDestination ==
    /\ pc = "idle"
    /\ \E f \in files :
        \E r \in {get_destination(World, Join(f.dir, f.name))} :
            last' = [NoStep EXCEPT !.path = Join(f.dir, f.name), !.dest = r.dest,
                                   !.err = r.exc]
    /\ pc' = "returned"
    /\ UNCHANGED <<configVars, diskVars, log, stack, root, todo, moved_count,
                   created_folders, errors, files_to_move, folders_to_create, report,
                   runs, prevMode, files0, nMoved, nRemoved, nRenamed, vanished,
                   prevPlanned, acted>>

SpecFilters == InitFilters /\ [][CallApplyFilters]_vars

SpecDest == InitDest /\ [][CallGetDestination]_vars

\* the world as it was when the run (or the call) began
World0 == [World EXCEPT !.files = files0]

\* the enabled filters whose criteria all hold for the file at path
Matching(path) ==
    {i \in 1..Len(filter_actions) :
        /\ filter_actions[i].enabled
        /\ FilterMatches(World0, path, filter_actions[i]).matches}

\* the return value the action of filter f stands for
DirectiveOf(f) ==
    CASE f.action_type = "delete" -> DELETE
      [] f.action_type = "exclude" -> EXCLUDE
      [] f.action_type \in {"move", "move_external"} -> f.destination
      [] OTHER -> NoPath

\* C5: when several enabled filters match a file, the action applied is that
\* of the one with the highest priority, and among equal priorities that of
\* the one earlier in the list.
C5_HighestPriorityFirstWins ==
    (pc = "returned" /\ Matching(last.path) # {}) =>
        /\ last.sel \in Matching(last.path)
        /\ \A j \in Matching(last.path) :
                \/ filter_actions[j].priority < filter_actions[last.sel].priority
                \/ /\ filter_actions[j].priority = filter_actions[last.sel].priority
                   /\ j >= last.sel
        /\ last.result = DirectiveOf(filter_actions[last.sel])

\* two filters match, the second of the list has the higher priority and wins
C5_Witness ==
    /\ pc = "returned"
    /\ Cardinality(Matching(last.path)) >= 2
    /\ last.sel = 2
    /\ 1 \in Matching(last.path)

\* two filters of equal priority match and the first of the list wins
C5_WitnessTie ==
    /\ pc = "returned"
    /\ last.sel = 1
    /\ 2 \in Matching(last.path)
    /\ filter_actions[1].priority = filter_actions[2].priority
    /\ filter_actions[1] # filter_actions[2]

\* whether rule i is consulted at its level and matches the file at path
RuleMatches(i, path) ==
    /\ folder_rules[i].enabled
    /\ \/ folder_rules[i].is_time_based
       \/ InList(Lower(splitext(basename(path))[2]), folder_rules[i].file_extensions)

\* the first rule of the list, of the given level, that matches; 0 for none
FirstMatch(level, path) ==
    LET S == {i \in 1..Len(folder_rules) :
                folder_rules[i].hierarchy_level = level /\ RuleMatches(i, path)}
    IN  IF S = {} THEN 0 ELSE CHOOSE i \in S : \A j \in S : i <= j

\* the path segment rule i contributes for the file at path
SegmentOf(i, path) ==
    IF folder_rules[i].is_time_based
    THEN strftime(folder_rules[i].time_pattern,
                  fromtimestamp(get_file_date(World, path, folder_rules[i].date_source)))
    ELSE folder_rules[i].folder_name

\* the levels 1..5 at which some rule matches, ascending
MatchedLevels(path) ==
    SelectSeq(<<1, 2, 3, 4, 5>>, LAMBDA l : FirstMatch(l, path) # 0)

\* C6: get_destination returns the target root followed by one segment per
\* level 1..5 at which an enabled rule matches, in ascending level order,
\* each from the first matching enabled rule of its level in list order.
C6_OneSegmentPerMatchedLevel ==
    (pc = "returned" /\ MatchedLevels(last.path) # <<>>) =>
        last.dest = target_folder \o
            [k \in 1..Len(MatchedLevels(last.path)) |->
                SegmentOf(FirstMatch(MatchedLevels(last.path)[k], last.path),
                          last.path)]

\* a time-based rule of level 1 listed after an extension rule of level 2:
\* <target>/Mar/D
C6_Witness ==
    /\ pc = "returned"
    /\ folder_rules = <<Documents, ByMonth>>
    /\ last.dest = <<tDir, MonthAbbr[3], DDir>>

\* the file the step just taken was about has an extension that is in no
\* folder rule's extension set, and no enabled filter matches it
Unmatched ==
    /\ Stepped
    /\ isfile(World, last'.path)
    /\ \A i \in 1..Len(folder_rules) :
            ~InList(Lower(splitext(basename(last'.path))[2]),
                    folder_rules[i].file_extensions)
    /\ \A i \in 1..Len(filter_actions) :
            ~(filter_actions[i].enabled
                /\ FilterMatches(World, last'.path, filter_actions[i]).matches)

\* the step resolved no destination and left disk, log and counts alone
LeftAlone ==
    /\ last'.dest = NoPath
    /\ ~last'.planned
    /\ files' = files /\ dirs' = dirs /\ log' = log
    /\ moved_count' = moved_count /\ files_to_move' = files_to_move

\* an enabled time-based rule of a level get_destination walks
TimeRuleActive ==
    \E i \in 1..Len(folder_rules) :
        /\ folder_rules[i].enabled
        /\ folder_rules[i].is_time_based
        /\ folder_rules[i].hierarchy_level \in FirstLevel..LastLevel

\* C7 as stated: a file whose extension is in no folder rule's extension set
\* and that matches no filter gets no destination and is left untouched.
C7_UnmatchedLeftAlone == [][Unmatched => LeftAlone]_vars

\* C7 amended: ... provided no enabled time-based rule of level 1..5 is
\* configured (such a rule matches every file).
C7_UnmatchedLeftAloneWithoutTimeRule ==
    [][(Unmatched /\ ~TimeRuleActive) => LeftAlone]_vars

\* an apply run with an extension rule has just passed over a file that no
\* rule and no filter matches
C7_Witness ==
    /\ ~dry_run
    /\ pc = "walking"
    /\ folder_rules # <<>>
    /\ ~TimeRuleActive
    /\ last.path # NoPath
    /\ ~last.excluded
    /\ last.sel = 0
    /\ last.dest = NoPath
    /\ isfile(World, last.path)
    /\ \A i \in 1..Len(folder_rules) :
            ~InList(Lower(splitext(basename(last.path))[2]),
                    folder_rules[i].file_extensions)

\* C8: after an apply run, a dry run that follows at once on the same tree
\* and configuration reports no file to move.
C8_DryRunAfterApplyFindsNothing ==
    (pc = "done" /\ dry_run /\ prevMode = "apply") => report.files_to_move = 0

\* C9: the log has one entry for every mutation completed: as many entries
\* as moves and removals so far.
C9_LogCountsEveryMutation ==
    (~dry_run /\ pc \in {"walking", "done"}) => Len(log) = nMoved + nRemoved

\* C10: with backup logging on, when an apply run is over one backup file
\* has been written for it and it lists every entry of the run's log.
C10_BackupHoldsTheRunsLog ==
    (pc = "done" /\ ~dry_run /\ settings.create_backup_log) =>
        /\ logFiles # <<>>
        /\ logFiles[Len(logFiles)].operations = log


\* C11: in an apply run a failure on one file never ends the run: the step
\* records exactly one error entry (and a step without a failure records
\* none), the walk goes on with the files and directories still pending, and
\* the report returned at the end counts the error entries
C11_FailuresDoNotAbort ==
    [][~dry_run =>
        /\ pc' # "crashed"
        /\ Stepped =>
              /\ pc' = "walking"
              /\ todo' = todo \ {basename(last'.path)}
              /\ stack' = stack
              /\ Len(errors') = Len(errors) + (IF last'.err THEN 1 ELSE 0)
        /\ ~Stepped => errors' \in {errors, <<>>}
        /\ (pc = "walking" /\ pc' = "done") => report'.errors = Len(errors)]_vars

\* a file was moved after an earlier file of the same run had failed
C11_Witness ==
    /\ ~dry_run
    /\ pc = "walking"
    /\ Len(errors) >= 1
    /\ ~last.err
    /\ last.moved = 1


\* C12: a run requested, in either mode, while the target directory does not
\* exist is refused with an error before any work: no file, directory or
\* backup log file changes; and a run only ever starts on an existing target
C12_MissingTargetRefused ==
    [][/\ (pc \in {"idle", "refused", "done"} /\ target_folder \notin dirs) =>
            /\ pc' = "refused"
            /\ report'.kind = "error"
            /\ files' = files
            /\ dirs' = dirs
            /\ logFiles' = logFiles
       /\ (pc # "ready" /\ pc' = "ready") => target_folder \in dirs]_vars

\* a request was refused because the target directory is missing
C12_Witness ==
    /\ pc = "refused"
    /\ target_folder \notin dirs
    /\ report.kind = "error"
    /\ files = files0
    /\ logFiles = <<>>


\* the file's age in whole days: now minus its modification time, floored
WholeDaysOld(f) == (Now - f.mtime) \div HoursPerDay

\* filter flt is enabled and its extension and name criteria hold for file f
OtherCriteriaMet(flt, f) ==
    /\ flt.enabled
    /\ flt.file_types = <<>> \/ InList(Lower(splitext(f.name)[2]), flt.file_types)
    /\ flt.name_contains = <<>> \/ Contains(Lower(f.name), Lower(flt.name_contains))

\* the filters that match file f as the age rule reads: the other criteria
\* hold and, with a threshold of N days, the file is at least N whole days old
Met(f) ==
    {i \in 1..Len(filter_actions) :
        /\ OtherCriteriaMet(filter_actions[i], f)
        /\ filter_actions[i].older_than_days > 0 =>
                WholeDaysOld(f) >= filter_actions[i].older_than_days}

\* C13: in every step of an apply run on a file that is not excluded, a
\* filter with a threshold of N days whose other criteria hold matches exactly
\* when the file is at least N whole days old; when the only match is such a
\* filter with action delete the file is deleted, and when no filter matches
\* the file gets no directive and its destination is the folder rules' one
C13_AgeThreshold ==
    [][(Stepped /\ ~dry_run /\ ~last'.excluded) =>
        /\ \A i \in 1..Len(filter_actions) :
              (/\ OtherCriteriaMet(filter_actions[i], Subject)
               /\ filter_actions[i].older_than_days > 0) =>
                 /\ FilterMatches(World, last'.path, filter_actions[i]).matches
                        <=> i \in Met(Subject)
                 /\ (Met(Subject) = {i} /\ filter_actions[i].action_type = "delete") =>
                        /\ last'.result = DELETE
                        /\ ~last'.err
                        /\ \A g \in files' : g.id # Subject.id
        /\ Met(Subject) = {} =>
              /\ last'.sel = 0
              /\ last'.result = NoPath
              /\ last'.dest = get_destination(World, last'.path).dest
              /\ last'.dest \notin {NoPath, Front(last'.path)} =>
                        last'.moveTo = last'.dest]_vars

\* the delete filter with the 30-day threshold has deleted the file 45 days
\* old, and the file one hour short of 30 days old went on to the folder
\* rules, which moved it
C13_Witness ==
    /\ ~dry_run
    /\ pc = "walking"
    /\ filter_actions = <<DeleteOldT>>
    /\ \E e \in files0 : e.name = bT /\ WholeDaysOld(e) = 45 /\ e \notin files
    /\ nRemoved = 1
    /\ last.path = <<tDir, sDir, bT>>
    /\ last.sel = 0
    /\ last.moved = 1
    /\ \E e \in files0 \ files : e.name = bT /\ WholeDaysOld(e) = 29


\* the name a rename filter gives file f: the pattern with the placeholder
\* replaced by the stem of f, and the extension of f (lower-cased) kept
Renamed(flt, f) ==
    ReplaceOriginal(flt.rename_pattern, splitext(f.name)[1])
        \o Lower(splitext(f.name)[2])

\* C14: when a rename filter is the one applied to a file in an apply run,
\* no error is recorded for the file and the file ends under its new name in
\* the directory resolved for the renamed file (its own directory when the
\* folder rules resolve none)
C14_RenamedFileIsMoved ==
    [][(/\ Stepped
        /\ ~dry_run
        /\ ~last'.excluded
        /\ last'.sel > 0
        /\ filter_actions[last'.sel].action_type = "rename") =>
          LET dir  == Front(last'.path)
              name == Renamed(filter_actions[last'.sel], Subject)
              dest == get_destination(World, Join(dir, name)).dest
              to   == IF dest = NoPath THEN dir ELSE Loc(dest)
          IN  /\ ~last'.err
              /\ \E g \in files' :
                    /\ g.id = Subject.id
                    /\ g.dir = to
                    /\ splitext(g.name)[2] = splitext(name)[2]
                    /\ g.name = name \/ to # dir]_vars


\* C15: whenever a step of an apply run moves a file into a directory that
\* did not exist when the step began, whether the folder rules or a move
\* filter named it, the directory and its missing parents exist afterwards
\* and the file is in it, with no error
C15_MissingDestinationIsCreated ==
    [][(/\ Stepped
        /\ ~dry_run
        /\ last'.moveTo # NoPath
        /\ Loc(last'.moveTo) \notin dirs) =>
          /\ ~last'.err
          /\ Prefixes(Loc(last'.moveTo)) \subseteq dirs'
          /\ \E g \in files' : g.id = Subject.id /\ g.dir = Loc(last'.moveTo)]_vars


\* directory dir has a name that contains an entry of settings.exclude_folders
FolderExcluded(dir) ==
    \E k \in 2..Len(dir) : \E i \in 1..Len(settings.exclude_folders) :
        Contains(dir[k], settings.exclude_folders[i])

\* C16: a file that was, when the run began, inside a directory under the
\* target whose name contains an entry of settings.exclude_folders is still
\* there and is not among the planned moves, in both modes
C16_ExcludedFoldersSkipped ==
    \A f \in files0 :
        (f.dir[1] = target_folder[1] /\ FolderExcluded(f.dir)) =>
            /\ f \in files
            /\ \A i \in 1..Len(files_to_move) :
                    files_to_move[i][1] # Join(f.dir, f.name)


\* the path of dir contains the folder name of an enabled rule that is not
\* time-based
HoldsEnabledFolder(dir) ==
    \E i \in 1..Len(folder_rules) :
        /\ folder_rules[i].enabled
        /\ ~folder_rules[i].is_time_based
        /\ Contains(PathStr(dir), folder_rules[i].folder_name)

\* C17: a directory the walk comes to is passed over, with files in it,
\* exactly when exclude_organized_folders is set and its path contains the
\* folder name of an enabled rule that is not time-based
C17_OrganizedSkipNeedsEnabledRule ==
    [][(pc = "walking" /\ stack' # stack /\ root' \in dirs
            /\ \E f \in files : f.dir = root') =>
          (todo' = {} <=>
              (settings.exclude_organized_folders /\ HoldsEnabledFolder(root')))]_vars


\* C18: with a valid exclude_before_date, a file under the target that was
\* last modified before that date when the run began is still in place and
\* is not among the planned moves, in both modes and whatever the working
\* directory
C18_OldFilesExcluded ==
    (settings.exclude_before_date.given /\ settings.exclude_before_date.valid) =>
        \A f \in files0 :
            (f.dir[1] = target_folder[1]
                /\ f.mtime < settings.exclude_before_date.ts) =>
                /\ f \in files
                /\ \A i \in 1..Len(files_to_move) :
                        files_to_move[i][1] # Join(f.dir, f.name)


\* C19: throughout an apply run the files-moved tally is the number of files
\* relocated so far and the error list has one entry per failed file; the
\* report at the end gives these two numbers
C19_MovedCountIsRelocations ==
    (~dry_run /\ pc \in {"walking", "done"}) =>
        /\ moved_count = nMoved
        /\ pc = "done" => report.moved = nMoved /\ report.errors = Len(errors)


\* ------------------------------------------------- load_config_from_file
\* an entry of a list of the configuration file: the keyword arguments of a
\* FolderRule or FilterAction, accepted by the constructor or, with a field
\* the dataclass does not have, rejected with a TypeError
Accepted(v) == [ok |-> TRUE, v |-> v]
Rejected(v) == [ok |-> FALSE, v |-> v]

AllAccepted(entries) == \A i \in 1..Len(entries) : entries[i].ok

RECURSIVE Appended(_)
\* the objects appended to the list before the constructor first raises
Appended(entries) ==
    IF entries = <<>> \/ ~Head(entries).ok THEN <<>>
    ELSE <<Head(entries).v>> \o Appended(Tail(entries))

\* the configuration files offered to load: readable is FALSE for a file that
\* cannot be opened or parsed; settings is accepted by AppSettings or not
ConfigFiles ==
    { [readable |-> rd, target_folder |-> <<xDir>>, folder_rules |-> rs,
       filter_actions |-> fs, hasSettings |-> hs, settingsOK |-> so,
       settings |-> DatedSettings] :
        rd \in BOOLEAN,
        rs \in { <<Accepted(Texts)>>, <<Accepted(Texts), Rejected(Extra)>>,
                 <<Rejected(Extra), Accepted(Texts)>> },
        fs \in { <<>>, <<Accepted(MoveAway)>>, <<Rejected(MoveAway)>> },
        hs \in BOOLEAN, so \in BOOLEAN }

\* load_config_from_file(file_path): the fields are assigned one after the
\* other inside one try, and the except clause only shows the error
load_config_from_file ==
    /\ pc = "idle"
    /\ \E config \in ConfigFiles :
        LET rulesOK    == AllAccepted(config.folder_rules)
            filtersOK  == AllAccepted(config.filter_actions)
            settingsOK == ~config.hasSettings \/ config.settingsOK
        IN  IF ~config.readable
            THEN /\ pc' = "load_failed"
                 /\ UNCHANGED <<target_folder, folder_rules, filter_actions, settings>>
            ELSE /\ target_folder' = config.target_folder
                 /\ folder_rules' = Appended(config.folder_rules)
                 /\ filter_actions' = IF rulesOK
                                      THEN Appended(config.filter_actions)
                                      ELSE filter_actions
                 /\ settings' = IF rulesOK /\ filtersOK /\ config.hasSettings
                                        /\ config.settingsOK
                                 THEN config.settings
                                 ELSE settings
                 /\ pc' = IF rulesOK /\ filtersOK /\ settingsOK
                          THEN "loaded" ELSE "load_failed"
    /\ report' = IF pc' = "load_failed" THEN [kind |-> "error"] ELSE report
    /\ UNCHANGED <<dry_run, posix, cwd, diskVars, log, stack, root, todo,
                   moved_count, created_folders, errors, files_to_move,
                   folders_to_create, histVars>>

\* the application as it may stand when a configuration file is loaded
SpecLoad == Init /\ [][load_config_from_file]_vars

\* C20: when loading a configuration file fails, the failure is reported
\* and the target folder, the folder rules, the filter actions and the
\* settings are what they were before the attempt
C20_FailedLoadChangesNothing ==
    [][pc' = "load_failed" =>
        /\ report'.kind = "error"
        /\ target_folder' = target_folder
        /\ folder_rules' = folder_rules
        /\ filter_actions' = filter_actions
        /\ settings' = settings]_vars


\* --------------------------------------------------- FolderRuleDialog.save
RECURSIVE lstrip(_)
lstrip(s) == IF s # <<>> /\ Head(s) = " " THEN lstrip(Tail(s)) ELSE s

RECURSIVE rstrip(_)
rstrip(s) == IF s # <<>> /\ Last(s) = " " THEN rstrip(Front(s)) ELSE s

\* str.strip()
strip(s) == rstrip(lstrip(s))

RECURSIVE Extensions(_)
\* [ext.strip() for ext in extensions_text.split(",") if ext.strip()], on the
\* pieces between the commas
Extensions(pieces) ==
    IF pieces = <<>> THEN <<>>
    ELSE IF strip(Head(pieces)) # <<>>
         THEN <<strip(Head(pieces))>> \o Extensions(Tail(pieces))
         ELSE Extensions(Tail(pieces))

\* what is typed into the extensions box, cut at the commas
ExtensionTexts ==
    { <<extP>>, << <<"p">> >>, << <<"P">> >>, << <<".", "P">> >>,
      << <<" ", ".", "p">>, <<" ">> >> }

\* what is typed into the folder name box
FolderNameTexts == { DDir, <<" ">> }

\* save() of the rule dialog, for a regular rule: a blank folder name is
\* refused; else the rule, its extensions as typed, is added to the list
FolderRuleDialog_save ==
    /\ pc = "idle"
    /\ Len(folder_rules) < MaxRules
    /\ \E text \in ExtensionTexts, folder \in FolderNameTexts :
        folder_rules' =
            IF strip(folder) = <<>> THEN folder_rules
            ELSE Append(folder_rules,
                        Rule("Saved", TRUE, 1, strip(folder), Extensions(text)))
    /\ UNCHANGED <<target_folder, filter_actions, settings, dry_run, posix, cwd,
                   diskVars, log, pc, stack, root, todo, moved_count,
                   created_folders, errors, files_to_move, folders_to_create,
                   report, histVars>>

InitDialog ==
    /\ folder_rules = <<>>
    /\ filter_actions = <<>>
    /\ settings = DefaultSettings
    /\ dry_run \in BOOLEAN
    /\ InitRun

\* rules are saved from the dialog, then a destination is asked for
SpecDialog == InitDialog /\ [][FolderRuleDialog_save \/ CallGetDestination]_vars

\* an extension as the rule is meant to hold it: lower case, with the dot
Normalized(ext) == IF Head(ext) = "." THEN Lower(ext) ELSE <<".">> \o Lower(ext)

\* C21: a regular rule matches a file when the file's extension, lower-cased,
\* is one of the rule's extensions, lower-cased and given their leading dot:
\* with one saved rule that holds it, the destination is the rule's folder
C21_ExtensionsNormalized ==
    (pc = "returned" /\ Len(folder_rules) = 1) =>
        LET rule == folder_rules[1]
            ext  == Lower(splitext(basename(last.path))[2])
        IN  (\E i \in 1..Len(rule.file_extensions) :
                    Normalized(rule.file_extensions[i]) = ext) =>
                last.dest = Join(target_folder, rule.folder_name)


\* filter flt tests nothing: no extensions, no name part, no age
NoCriteria(flt) ==
    flt.file_types = <<>> /\ flt.name_contains = <<>> /\ flt.older_than_days = 0

\* C22: one call of apply_filters applies one filter at most: the filter
\* applied is enabled, an enabled filter without criteria leaves no file
\* without a filter, the directive returned is that filter's own (none for a
\* rename), only a rename filter touches the disk and then with one rename at
\* most, and with no filter applied nothing is returned and nothing changes
C22_FirstMatchDecides ==
    pc = "returned" =>
        /\ nRenamed <= 1
        /\ last.sel = 0 =>
              /\ last.result = NoPath
              /\ files = files0
              /\ nRenamed = 0
              /\ \A i \in 1..Len(filter_actions) :
                    ~(filter_actions[i].enabled /\ NoCriteria(filter_actions[i]))
        /\ last.sel # 0 =>
              /\ filter_actions[last.sel].enabled
              /\ filter_actions[last.sel].action_type # "rename" =>
                    /\ files = files0
                    /\ nRenamed = 0
                    /\ last.result = DirectiveOf(filter_actions[last.sel])
              /\ filter_actions[last.sel].action_type = "rename" =>
                    /\ last.result = NoPath
                    /\ nRenamed = IF dry_run \/ last.err THEN 0 ELSE 1
                    /\ \A f \in files \ files0 :
                            f.id = FileAt(World0, last.path).id

\* a rename filter was applied, ahead of an enabled filter without criteria
\* that comes first in the list, and the file was renamed once
C22_Witness ==
    /\ pc = "returned"
    /\ last.sel = 2
    /\ filter_actions[2].action_type = "rename"
    /\ filter_actions[1].enabled
    /\ NoCriteria(filter_actions[1])
    /\ nRenamed = 1


\* C23: a step, in either mode, on a file for which apply_filters returns
\* the exclude directive leaves the disk and the log as they are, asks for no
\* destination, and counts the file neither as a planned move nor as moved
C23_ExcludeDirectiveSkips ==
    [][(Stepped /\ ~last'.excluded /\ last'.result = EXCLUDE) =>
        /\ files' = files
        /\ dirs' = dirs
        /\ log' = log
        /\ last'.dest = NoPath
        /\ moved_count' = moved_count
        /\ files_to_move' = files_to_move
        /\ folders_to_create' = folders_to_create]_vars


\* C24: no step of a run, in either mode, changes the configuration: the
\* folder rules and the filter actions keep their elements, their order and
\* their field values, and the settings and the target folder stay the same
C24_ConfigurationUntouched ==
    [][(pc \in {"ready", "walking"}) =>
        /\ target_folder' = target_folder
        /\ folder_rules' = folder_rules
        /\ filter_actions' = filter_actions
        /\ settings' = settings]_vars

\* a run has ended that sorted a filter list not in priority order, and moved
\* a file on a filter's directive
C24_Witness ==
    /\ pc = "done"
    /\ sorted_filters # [i \in 1..Len(filter_actions) |-> i]
    /\ nMoved > 0
    /\ last.sel > 0


\* ------------------------------------------------- another actor on the disk
\* how many files another actor removes while runs are followed
MaxVanished == 1

\* between os.walk's listing of a directory and the loop's turn for one of
\* the listed files, something other than the run removes that file
ExternalRemove ==
    /\ pc = "walking"
    /\ vanished < MaxVanished
    /\ vanished' = vanished + 1
    /\ \E file \in todo :
        /\ isfile(World, Join(root, file))
        /\ files' = files \ {FileAt(World, Join(root, file))}
    /\ UNCHANGED <<configVars, dirs, logFiles, runVars, runs, prevMode, files0,
                   nMoved, nRemoved, nRenamed, last, prevPlanned, acted>>

\* the configurations followed while another actor is at work
InitExternal ==
    /\ folder_rules \in { <<Documents>>, <<ByMonth>> }
    /\ filter_actions \in { <<>>, <<DeleteOldT>>, <<MoveP>> }
    /\ settings \in { DefaultSettings, Settings(FALSE, TRUE, FALSE, <<>>) }
    /\ dry_run = FALSE
    /\ InitRun

SpecExternal == InitExternal /\ [][Next \/ ExternalRemove]_vars

\* C25: when a listed file is removed by another actor before its turn, the
\* run, dry or not, is not ended by it: the step on the missing file leaves
\* the walk going with the files still pending, and a walk once begun never
\* stops short of its report
C25_ExternalRemovalTolerated ==
    [][/\ pc' # "crashed"
       /\ (Stepped /\ ~isfile(World, last'.path)) =>
              /\ pc' = "walking"
              /\ todo' = todo \ {basename(last'.path)}
              /\ stack' = stack]_vars


\* -------------------------------------------- destinations inside the tree
\* configurations that name the target tree itself: a move filter into one
\* of its subdirectories, a rule folder named like the target folder
InitInside ==
    /\ folder_rules \in { <<>>, <<Documents>>, <<Home>> }
    /\ filter_actions \in { <<>>, <<MoveIn>>, <<ExcludeB, MoveIn>> }
    /\ settings \in { DefaultSettings, Settings(FALSE, TRUE, FALSE, <<>>),
                      Settings(FALSE, FALSE, FALSE, <<>>) }
    /\ dry_run = FALSE
    /\ InitRun

SpecInside == InitInside /\ [][Next]_vars

\* C26: an apply run is one pass over the tree as it was when the walk
\* began: a step that moves, renames, deletes or counts a file does so to a
\* file that is still where the run found it, never to one the run has
\* already put somewhere else
C26_SinglePass ==
    [][(/\ Stepped
        /\ ~dry_run
        /\ ~last'.excluded
        /\ isfile(World, last'.path)
        /\ (files' # files \/ moved_count' # moved_count)) =>
            Subject \in files0]_vars


\* an enabled filter deletes
DeleteFilterEnabled ==
    \E i \in 1..Len(filter_actions) :
        filter_actions[i].enabled /\ filter_actions[i].action_type = "delete"

\* C27: an apply run with delete_duplicates off and no enabled delete filter
\* destroys and overwrites no file: as many files exist after the run as
\* before it
C27_FilesConserved ==
    (/\ pc = "done"
     /\ ~dry_run
     /\ ~settings.delete_duplicates
     /\ ~DeleteFilterEnabled) =>
        Cardinality(files) = Cardinality(files0)


\* C28: with delete_duplicates on, a file handed to move_file together with
\* the directory it is already in is left in place: it still exists, at its
\* path, after the step
C28_SelfMoveKeepsTheFile ==
    [][(/\ Stepped
        /\ ~dry_run
        /\ settings.delete_duplicates
        /\ isfile(World, last'.path)
        /\ last'.moveTo = dirname(last'.path)) =>
            \E f \in files' :
                f.id = Subject.id /\ f.dir = Subject.dir /\ f.name = Subject.name]_vars


\* C29: an apply run that follows a dry run on the same tree and
\* configuration, and meets no per-file error, moves or deletes exactly the
\* files the dry run counted as files to move, each to the destination the
\* dry run gave, so the dry run's count is the apply run's moves plus its
\* deletions
C29_DryRunAndApplyAgree ==
    (/\ pc = "done"
     /\ ~dry_run
     /\ prevMode = "dry"
     /\ errors = <<>>) =>
        /\ acted = prevPlanned
        /\ Cardinality(prevPlanned) =
                moved_count + Cardinality({a \in acted : a[2] = DELETE})


\* C30: the already-organized skip never applies to the target root itself:
\* when the walk of a run, in either mode, opens with the target root, the
\* files located directly in it are all taken up, whatever folder names the
\* rules hold
C30_TargetRootNeverSkipped ==
    [][(pc = "walking" /\ root = NoPath /\ root' = target_folder) =>
            todo' = {f.name : f \in {g \in files : g.dir = target_folder}}]_vars

=============================================================================
